---- MODULE Spec2Model ----
(***************************************************************************)
(* A model of the portfolio page: the Three.js volatility surface          *)
(* (js/volatility-surface.js), the two D3 charts                           *)
(* (js/project-visualizations.js) and the page bootstrap (main script).    *)
(*                                                                         *)
(* JavaScript numbers are modelled as exact rationals: the model does not  *)
(* round, so it says nothing about the last bits of a double or about the  *)
(* Float32 conversion of the position buffer.  Math.sin and Math.cos are   *)
(* kept symbolic (see Wave).                                               *)
(***************************************************************************)
EXTENDS Integers, Sequences, FiniteSets, TLC

\* ------------------------------------------------------------------ bounds
\* u and v are sampled at k/UDen, from -Over to 1 + Over.
UDen == 2
Over == 1
\* The data grid has 2..MaxRows rows and 2..MaxCols columns.
MaxRows == 2
MaxCols == 2
\* The mobile render grid has 1..MaxGridX by 1..MaxGridY segments.
MaxGridX == 2
MaxGridY == 2
\* Animation frames, polls for the libraries and calls of
\* setupProjectInteractions that a run of the model follows.
MaxFrames == 2
MaxPolls == 2
MaxSetups == 2
\* A debounced function: waits of 1..MaxWait ticks, MaxCalls calls within
\* MaxTime ticks.
MaxWait == 2
MaxCalls == 3
MaxTime == 5
\* The hover of a card is followed for MaxHoverTime ms on a clock that
\* advances TickMs ms at a time.
TickMs == 25
MaxHoverTime == 200

VARIABLES
  \* interpolateSigma applied to sampled inputs
  iu, iv, igrid, ires,
  \* the host page
  THREE, d3,            \* typeof THREE, typeof d3 are not 'undefined'
  classes,              \* which of the page's own class scripts have run
  phase,                \* "loading" until DOMContentLoaded, then "ready"
  pollPending,          \* setTimeout(initializeWhenReady, 100) is pending
  pollAttempts,         \* calls of initializeWhenReady that found a library missing
  initRuns,             \* runs of the initialization body
  console,              \* what has been logged
  unhandled,            \* promises rejected with no handler
  handlers,             \* the listeners setupProjectInteractions has installed
  smoothScroll,         \* the anchors' click listeners are installed
  resizeTimer,          \* the 250 ms debounce timer of the resize listener is pending
  innerWidth, hidden,   \* window.innerWidth, document.hidden
  kalmanViz, markovViz, \* the two charts
  \* the VolatilitySurface instance
  vsPc,                 \* "absent", "fetching", "running" or "rejected"
  response,             \* what the fetch of the dataset came back with
  renderGrid, antialias, rendererWidth,
  surfaceData, baseHeights, positions, indices,
  surface,              \* this.surface is set and its group is in the scene
  time, rotation,
  pendingFrames,        \* frame callbacks requested and not yet run
  frames,               \* frame callbacks run
  resizeListener,       \* handleResize has added its listener
  disposed,
  \* a function debounce(func, wait) returned
  wait,                 \* its wait, in ticks
  now,                  \* the clock
  nextId,               \* the id setTimeout returns next
  timeout,              \* the closure's variable: the id of the latest timer
  timers,               \* the host's pending timers
  calls,                \* the calls of executedFunction: when, and with what
  invocations,          \* the calls of func: when, and with what
  \* a project card
  vizVisible,           \* its viz container has opacity 1 and pointer events on
  showTimers,           \* when the pending 100 ms show timers are due
  lastEvent             \* the latest pointer event, and vizVisible before it

interpVars == <<iu, iv, igrid, ires>>
pollVars == <<THREE, d3, classes, phase, pollPending, pollAttempts, initRuns>>
pageVars == <<console, unhandled, handlers, smoothScroll, resizeTimer, innerWidth, hidden>>
chartVars == <<kalmanViz, markovViz>>
meshVars == <<surfaceData, baseHeights, positions, indices, surface>>
frameVars == <<time, rotation, pendingFrames, frames>>
surfaceVars ==
  <<vsPc, response, renderGrid, antialias, rendererWidth, meshVars, frameVars,
    resizeListener, disposed>>
debounceVars == <<wait, now, nextId, timeout, timers, calls, invocations>>
cardVars == <<vizVisible, showTimers, lastEvent>>
vars ==
  <<interpVars, pollVars, pageVars, chartVars, surfaceVars, debounceVars, cardVars>>

\* ------------------------------------------------------ JavaScript values
\* A JavaScript value that arithmetic can meet: a number n/d (d > 0, lowest
\* terms), NaN, or undefined.
Num(n, d) == [t |-> "num", n |-> n, d |-> d]
NaN == [t |-> "NaN", n |-> 0, d |-> 1]
Undefined == [t |-> "undefined", n |-> 0, d |-> 1]

IsNum(a) == a.t = "num"

Abs(n) == IF n < 0 THEN -n ELSE n

RECURSIVE GCD(_, _)
GCD(a, b) == IF b = 0 THEN a ELSE GCD(b, a % b)

\* n/d in lowest terms with a positive denominator.
Rat(n, d) ==
  LET s == IF d < 0 THEN -1 ELSE 1
      g == GCD(Abs(n), Abs(d))
  IN  Num((s * n) \div g, (s * d) \div g)

Whole(n) == Num(n, 1)

\* a + b, a - b, a * b of JavaScript: NaN as soon as an operand is NaN or
\* undefined.
JAdd(a, b) == IF IsNum(a) /\ IsNum(b) THEN Rat(a.n * b.d + b.n * a.d, a.d * b.d) ELSE NaN
JSub(a, b) == IF IsNum(a) /\ IsNum(b) THEN Rat(a.n * b.d - b.n * a.d, a.d * b.d) ELSE NaN
JMul(a, b) == IF IsNum(a) /\ IsNum(b) THEN Rat(a.n * b.n, a.d * b.d) ELSE NaN

\* a <= b on numbers.
JLe(a, b) == a.n * b.d <= b.n * a.d

\* Math.floor and Math.min on numbers.
Floor(a) == a.n \div a.d
Min(i, j) == IF i <= j THEN i ELSE j

\* arr[i] of JavaScript on an array (0-based): undefined outside 0..length-1.
At(arr, i) == IF i >= 0 /\ i < Len(arr) THEN arr[i + 1] ELSE Undefined

\* The outcome of a call: a returned value, or a thrown TypeError.
Returns(v) == [throws |-> FALSE, val |-> v]
Throws == [throws |-> TRUE, val |-> Undefined]

\* --------------------------------------------------------- interpolateSigma
\* grid[y][x]: grid[y] is undefined for a row index out of range, and
\* reading a property of undefined throws a TypeError.
RowExists(grid, y) == y >= 0 /\ y < Len(grid)
Cell(grid, y, x) == At(grid[y + 1], x)

\* The last weight without its fy factor.
BlendDropsFy(fx, fy, v00, v10, v01, v11) ==
  LET one == Whole(1) IN
  JAdd(JAdd(JAdd(JMul(JMul(JSub(one, fx), JSub(one, fy)), v00),
                 JMul(JMul(fx, JSub(one, fy)), v10)),
            JMul(JMul(JSub(one, fx), fy), v01)),
       JMul(fx, v11))

\* The weighted sum of lines 113-116.
Blend(fx, fy, v00, v10, v01, v11) ==
  LET one == Whole(1) IN
  JAdd(JAdd(JAdd(JMul(JMul(JSub(one, fx), JSub(one, fy)), v00),
                 JMul(JMul(fx, JSub(one, fy)), v10)),
            JMul(JMul(JSub(one, fx), fy), v01)),
       JMul(JMul(fx, fy), v11))

\* x1 = x0 + 1 with the clamp forgotten.
ClampNextUnclamped(i0, n) == i0 + 1

\* x1 and y1 as the code clamps them.
ClampNext(i0, n) == Min(i0 + 1, n - 1)

interpolateSigma(u, v, grid, nRows, nCols) ==
  LET gx == JMul(u, Whole(nCols - 1))
      gy == JMul(v, Whole(nRows - 1))
      x0 == Floor(gx)
      y0 == Floor(gy)
      x1 == ClampNext(x0, nCols)
      y1 == ClampNext(y0, nRows)
      fx == JSub(gx, Whole(x0))
      fy == JSub(gy, Whole(y0))
  IN  IF ~RowExists(grid, y0) \/ ~RowExists(grid, y1)
      THEN Throws
      ELSE Returns(Blend(fx, fy, Cell(grid, y0, x0), Cell(grid, y0, x1),
                                 Cell(grid, y1, x0), Cell(grid, y1, x1)))

\* ------------------------------------------------------- VolatilitySurface
\* config (constructor, lines 28-40).
waveSpeed == Rat(8, 10000)
rotationX == Rat(2, 10000)
rotationY == Rat(3, 10000)
scaleX == Whole(12)
scaleY == Whole(10)
scaleZ == Whole(20)
Half == Rat(1, 2)

\* a / b for a whole divisor b > 0 (u = j / gridX).
JDivInt(a, b) == Rat(a, b)

\* A parsed JSON document, as far as init and createSurface read it: whether
\* the value is truthy, whether .metadata and .surface are objects, whether
\* .surface.grid is truthy, and the grid's rows.
Doc(truthy, hasMetadata, hasSurface, hasGrid, grid) ==
  [truthy |-> truthy, hasMetadata |-> hasMetadata, hasSurface |-> hasSurface,
   hasGrid |-> hasGrid, grid |-> grid]
\* this.surfaceData = null
NullData == Doc(FALSE, FALSE, FALSE, FALSE, <<>>)

\* The synthetic fallback of lines 269-271.
SyntheticZ(u, v) ==
  LET d == JMul(JSub(u, Half), Whole(2))
      smile == JMul(JMul(d, d), Rat(3, 2))
      term == JMul(v, Half)
  IN  JMul(JAdd(smile, term), Whole(2))

\* The vertex loops with a strict bound.
VertexLoopCondStrict(k, n) == k < n

\* The loop conditions of createSurface: i <= gridY, j <= gridX for the
\* vertices (lines 253-254), i < gridY, j < gridX for the cells (280-281).
VertexLoopCond(k, n) == k <= n
IndexLoopCond(k, n) == k < n

\* An entry of the position buffer: a stored number, and the wave term the
\* last frame added to it (none before the first frame).
NoWave == [on |-> FALSE, u |-> Whole(0), v |-> Whole(0), time |-> Whole(0)]
Plain(x) == [base |-> x, wave |-> NoWave]

\* Math.sin(u*PI*3 + time) * Math.cos(v*PI*2 + time*0.7) * waveAmplitude,
\* kept as the term of its three arguments (lines 337-339).
Wave(u, v, t) == [on |-> TRUE, u |-> u, v |-> v, time |-> t]

\* The height of vertex (u, v), lines 262-272: [throws, val].
VertexZ(u, v, hasGrid, grid, nRows, nCols) ==
  IF hasGrid
  THEN LET r == interpolateSigma(u, v, grid, nRows, nCols)
       IN  IF r.throws THEN Throws ELSE Returns(JMul(r.val, scaleZ))
  ELSE Returns(SyntheticZ(u, v))

\* What a run of loop iterations pushes: heights onto baseHeights, entries
\* onto vertices, and whether an iteration threw (which ends createSurface).
NothingPushed == [throws |-> FALSE, baseHeights |-> <<>>, vertices |-> <<>>]
Thrown == [throws |-> TRUE, baseHeights |-> <<>>, vertices |-> <<>>]
\* The pushes of first followed by those of rest, which ran only if first
\* did not throw.
Then(first, rest) ==
  IF first.throws THEN first
  ELSE [throws |-> rest.throws,
        baseHeights |-> first.baseHeights \o rest.baseHeights,
        vertices |-> first.vertices \o rest.vertices]

\* The inner loop of lines 254-276 for row i, from column j on.
RECURSIVE VertexRow(_, _, _, _, _, _, _, _)
VertexRow(i, j, gridX, gridY, hasGrid, grid, nRows, nCols) ==
  IF ~VertexLoopCond(j, gridX) THEN NothingPushed
  ELSE
    LET u == JDivInt(j, gridX)
        v == JDivInt(i, gridY)
        x == JMul(JSub(u, Half), scaleX)
        y == JMul(JSub(v, Half), scaleY)
        z == VertexZ(u, v, hasGrid, grid, nRows, nCols)
    IN  IF z.throws THEN Thrown
        ELSE Then([throws |-> FALSE,
                   baseHeights |-> <<z.val>>,
                   vertices |-> <<Plain(x), Plain(z.val), Plain(y)>>],
                  VertexRow(i, j + 1, gridX, gridY, hasGrid, grid, nRows, nCols))

\* The outer loop of lines 253-277, from row i on.
RECURSIVE VertexLoop(_, _, _, _, _, _, _)
VertexLoop(i, gridX, gridY, hasGrid, grid, nRows, nCols) ==
  IF ~VertexLoopCond(i, gridY) THEN NothingPushed
  ELSE Then(VertexRow(i, 0, gridX, gridY, hasGrid, grid, nRows, nCols),
            VertexLoop(i + 1, gridX, gridY, hasGrid, grid, nRows, nCols))

\* The four index entries pushed per cell, lines 282-285: the segments
\* (a, b) and (a, a + 1).
CellSegments(i, j, gridX) ==
  LET a == i * (gridX + 1) + j
      b == a + gridX + 1
  IN  <<a, b, a, a + 1>>
\* The inner loop of lines 281-286 for row i, from column j on, and the
\* outer loop of lines 280-287, from row i on: the entries pushed.
RECURSIVE IndexRow(_, _, _)
IndexRow(i, j, gridX) ==
  IF ~IndexLoopCond(j, gridX) THEN <<>>
  ELSE CellSegments(i, j, gridX) \o IndexRow(i, j + 1, gridX)
RECURSIVE IndexLoop(_, _, _)
IndexLoop(i, gridX, gridY) ==
  IF ~IndexLoopCond(i, gridY) THEN <<>>
  ELSE IndexRow(i, 0, gridX) \o IndexLoop(i + 1, gridX, gridY)

\* An array field that may still be null (this.baseHeights, line 25).
NullArr == [null |-> TRUE, arr |-> <<>>]
Arr(a) == [null |-> FALSE, arr |-> a]

\* createSurface, lines 239-309: what it leaves in baseHeights, in the
\* geometry's position buffer and index, and whether it threw.  It throws
\* before it assigns baseHeights (line 251) when the document has no
\* .surface (line 247) or an empty grid (grid[0].length, line 249), and in
\* the loops when interpolateSigma throws; this.surface is assigned on
\* line 299, after the loops.
createSurface(data, grid2) ==
  LET gridX == grid2.x
      gridY == grid2.y
      hasGrid == data.truthy /\ data.hasGrid
      grid == data.grid
  IN  IF (data.truthy /\ ~data.hasSurface) \/ (hasGrid /\ Len(grid) = 0)
      THEN [throws |-> TRUE, baseHeights |-> NullArr, positions |-> <<>>,
            indices |-> <<>>, surface |-> FALSE]
      ELSE
        LET acc == VertexLoop(0, gridX, gridY, hasGrid, grid,
                              IF hasGrid THEN Len(grid) ELSE 0,
                              IF hasGrid THEN Len(grid[1]) ELSE 0)
        IN  IF acc.throws
            THEN [throws |-> TRUE, baseHeights |-> Arr(acc.baseHeights),
                  positions |-> <<>>, indices |-> <<>>, surface |-> FALSE]
            ELSE [throws |-> FALSE,
                  baseHeights |-> Arr(acc.baseHeights),
                  positions |-> acc.vertices,
                  indices |-> IndexLoop(0, gridX, gridY),
                  surface |-> TRUE]

\* The same with the "+ 1" dropped: the x component.
HeightSlotIsX(idx) == idx * 3 + 1

\* The slot of the position buffer a frame writes for vertex idx:
\* positions[posIdx + 1] with posIdx = idx * 3 (lines 329, 341), 1-based here.
HeightSlot(idx) == idx * 3 + 1 + 1
\* The loop conditions of animate, lines 326-327.
FrameLoopCond(k, n) == k <= n

\* The inner loop of lines 327-342 for row i, from column j on: each
\* iteration writes baseHeights[idx] plus its wave into its slot; a write
\* past the end of a typed array is ignored.
RECURSIVE FrameRow(_, _, _, _, _, _, _)
FrameRow(i, j, gridX, gridY, heights, t, pos) ==
  IF ~FrameLoopCond(j, gridX) THEN pos
  ELSE
    LET idx == i * (gridX + 1) + j
        u == JDivInt(j, gridX)
        v == JDivInt(i, gridY)
        baseZ == At(heights, idx)
        slot == HeightSlot(idx)
    IN  IF slot > Len(pos)
        THEN FrameRow(i, j + 1, gridX, gridY, heights, t, pos)
        ELSE FrameRow(i, j + 1, gridX, gridY, heights, t,
               [pos EXCEPT ![slot] = [base |-> baseZ, wave |-> Wave(u, v, t)]])

\* The outer loop of lines 326-343, from row i on.
RECURSIVE FrameLoop(_, _, _, _, _, _)
FrameLoop(i, gridX, gridY, heights, t, pos) ==
  IF ~FrameLoopCond(i, gridY) THEN pos
  ELSE FrameLoop(i + 1, gridX, gridY, heights, t,
                 FrameRow(i, 0, gridX, gridY, heights, t, pos))

\* animate without its first line.
RequestFrameForgotten(pending) == pending

\* requestAnimationFrame(() => this.animate()) run from a frame callback:
\* the callback that runs leaves the pending set, the new one enters it.
RequestFrame(pending) == pending + 1
\* this.time += this.config.waveSpeed (line 317).
AdvanceTime(t) == JAdd(t, waveSpeed)
\* One call of animate (lines 314-349) on the given fields: the new time,
\* rotation and position buffer.
animate(t, rot, heights, pos, grid2) ==
  LET t2 == AdvanceTime(t)
  IN  IF ~heights.null
      THEN [time |-> t2,
            rotation |-> <<JAdd(rot[1], rotationX), JAdd(rot[2], rotationY)>>,
            positions |-> FrameLoop(0, grid2.x, grid2.y, heights.arr, t2, pos)]
      ELSE [time |-> t2, rotation |-> rot, positions |-> pos]

\* ------------------------------------------------------------ the page
\* Viewport widths around the 768px threshold.
Widths == {767, 768, 769}

\* isMobile(), lines 43-45.
isMobile == innerWidth < 768

\* config.renderGrid, line 30: { x: 20, y: 12 } on mobile and twice that,
\* { x: 40, y: 24 }, otherwise.  The model follows the family gx x gy on
\* mobile and 2gx x 2gy otherwise, for gx, gy within the bounds.
\* dense records which of the two literals of line 30 was taken.
RenderGridsFor(mobile) ==
  {[x |-> (IF mobile THEN 1 ELSE 2) * gx, y |-> (IF mobile THEN 1 ELSE 2) * gy,
    dense |-> ~mobile] :
     gx \in 1 .. MaxGridX, gy \in 1 .. MaxGridY}
NoGrid == [x |-> 0, y |-> 0, dense |-> FALSE]

\* The class scripts of the page: a script that did not run leaves its
\* classes undefined, and naming one throws a ReferenceError.
ClassScripts == {"volatility-surface.js", "project-visualizations.js"}

\* What the fetch of data/health-surface-data.json can come back with: a
\* rejected fetch, a body that is no JSON, or a parsed document.
DataGrid22 == <<(<<Whole(1), Whole(2)>>), (<<Whole(3), Whole(5)>>)>>
DataGrid23 == <<(<<Rat(1, 2), Whole(1), Whole(4)>>), (<<Whole(2), Whole(2), Whole(0)>>)>>
SurfaceDocs ==
  {NullData,                                   \* the JSON text null
   Doc(TRUE, FALSE, TRUE, TRUE, DataGrid22),   \* a grid, but no metadata
   Doc(TRUE, TRUE, FALSE, FALSE, <<>>),        \* metadata, but no surface
   Doc(TRUE, TRUE, TRUE, FALSE, <<>>),         \* surface.grid is null
   Doc(TRUE, TRUE, TRUE, TRUE, <<>>),          \* surface.grid is []
   Doc(TRUE, TRUE, TRUE, TRUE, DataGrid22),
   Doc(TRUE, TRUE, TRUE, TRUE, DataGrid23)}
NoResponse == [kind |-> "none", doc |-> NullData]
SurfaceResponses ==
  {[kind |-> k, doc |-> NullData] : k \in {"networkError", "badJSON"}}
    \cup {[kind |-> "doc", doc |-> doc] : doc \in SurfaceDocs}

\* this.surfaceData after the try/catch of init, lines 53-60: the parsed
\* document, unless the fetch or the parse failed or reading
\* this.surfaceData.metadata.title (line 56) threw, and then null.
LoadedData(r) == IF r.kind = "doc" /\ r.doc.hasMetadata THEN r.doc ELSE NullData

\* A chart (BaseViz): where its init stands, how its fetch ended, this.data,
\* the calls of render, and its container.
AbsentChart ==
  [pc |-> "absent", fetch |-> "none", data |-> "none", renders |-> 0,
   container |-> "initial"]
\* new KalmanViz(id) / new MarkovViz(id): the constructor calls init, which
\* runs up to the fetch in loadData.
ConstructedChart == [AbsentChart EXCEPT !.pc = "fetching", !.fetch = "pending"]
\* How the fetch of a chart's JSON can end: rejected, a body that is no
\* JSON, a falsy document (null), an object without the fields render
\* reads, or a well-formed document.
ChartOutcomes == {"networkError", "badJSON", "falsy", "malformed", "valid"}

\* render() called whatever loadData left.
ShouldRenderAlways(data) == TRUE

\* if (this.data), lines 61 and 198.
ShouldRender(data) == data \in {"malformed", "valid"}
\* The rest of init once the fetch has settled (lines 23-32, 59-64,
\* 196-201): loadData stores the document or logs the failure, and render
\* (clear, createSVG, then the drawing, which throws on the first field it
\* misses) runs if this.data is truthy.
ChartSettled(chart, outcome) ==
  LET failed == outcome \in {"networkError", "badJSON"}
      data == IF failed THEN chart.data ELSE outcome
      draws == ShouldRender(data)
  IN  [pc |-> "done",
       fetch |-> IF failed THEN "failed" ELSE "ok",
       data |-> data,
       renders |-> IF draws THEN chart.renders + 1 ELSE chart.renders,
       container |-> IF ~draws THEN chart.container
                     ELSE IF data = "valid" THEN "chart" ELSE "svg"]
RenderThrows(chart) == chart.renders > 0 /\ chart.container = "svg"

\* The test written with && for ||.
LibrariesReadyEither == THREE \/ d3

\* typeof THREE === 'undefined' || typeof d3 === 'undefined', line 29, negated.
LibrariesReady == THREE /\ d3
\* The listeners one call of setupProjectInteractions installs on the card
\* (lines 82-134): hover above 768px, tap to toggle otherwise.
\* A listener starts with its closure's flag (isHovering, line 93, or
\* isVisible, line 112) false.
Listener(by) ==
  [kind |-> IF innerWidth > 768 THEN "hover" ELSE "tap", by |-> by, flag |-> FALSE]

\* The initialization body, lines 35-73: the three constructions in their
\* two try blocks, setupProjectInteractions and the smooth scroll.
InitBody ==
  /\ initRuns' = initRuns + 1
  /\ IF "volatility-surface.js" \in classes
     THEN \* constructor, then init up to its await (lines 16-54)
          /\ vsPc' = "fetching"
          /\ \E g \in RenderGridsFor(isMobile) : renderGrid' = g
          /\ antialias' = ~isMobile
          /\ rendererWidth' = innerWidth
     ELSE UNCHANGED <<vsPc, renderGrid, antialias, rendererWidth>>
  /\ IF "project-visualizations.js" \in classes
     THEN kalmanViz' = ConstructedChart /\ markovViz' = ConstructedChart
     ELSE UNCHANGED <<kalmanViz, markovViz>>
  /\ console' = console
       \cup {"Initializing Quant Portfolio...", "Portfolio initialization complete"}
       \cup (IF "volatility-surface.js" \in classes THEN {}
             ELSE {"Error initializing Three.js surface"})
       \cup (IF "project-visualizations.js" \in classes
             THEN {"D3.js visualizations initialized"}
             ELSE {"Error initializing D3.js visualizations"})
  /\ handlers' = Append(handlers, Listener("init"))
  /\ smoothScroll' = TRUE
  /\ UNCHANGED <<unhandled, resizeTimer, innerWidth, hidden, response, meshVars,
                 frameVars, resizeListener, disposed>>

\* initializeWhenReady, lines 27-74.
initializeWhenReady ==
  IF ~LibrariesReady
  THEN /\ console' = console \cup {"Waiting for libraries to load..."}
       /\ pollPending' = TRUE
       /\ pollAttempts' = pollAttempts + 1
       /\ UNCHANGED <<initRuns, unhandled, handlers, smoothScroll, resizeTimer,
                      innerWidth, hidden, chartVars, surfaceVars>>
  ELSE /\ pollPending' = FALSE
       /\ UNCHANGED pollAttempts
       /\ InitBody

\* document.addEventListener('DOMContentLoaded', initializeWhenReady), line 77.
DOMContentLoaded ==
  /\ phase = "loading"
  /\ phase' = "ready"
  /\ initializeWhenReady
  /\ UNCHANGED <<THREE, d3, classes, interpVars, debounceVars,
                 cardVars>>

\* The timer of line 31 fires.
PollTimer ==
  /\ pollPending
  /\ LibrariesReady \/ pollAttempts < MaxPolls
  /\ initializeWhenReady
  /\ UNCHANGED <<THREE, d3, classes, phase, interpVars, debounceVars,
                 cardVars>>

\* A library script finishes loading.
LoadTHREE ==
  /\ ~THREE
  /\ THREE' = TRUE
  /\ UNCHANGED <<d3, classes, phase, pollPending, pollAttempts, initRuns, pageVars,
                 chartVars, surfaceVars, interpVars, debounceVars,
                 cardVars>>
LoadD3 ==
  /\ ~d3
  /\ d3' = TRUE
  /\ UNCHANGED <<THREE, classes, phase, pollPending, pollAttempts, initRuns, pageVars,
                 chartVars, surfaceVars, interpVars, debounceVars,
                 cardVars>>

\* The fetch of the surface's dataset settles and init runs to its end
\* (lines 54-64): the try/catch, createSurface, handleResize, the first
\* call of animate.  An exception leaves init's promise rejected, and the
\* promise init().then(...) of line 40 has no rejection handler.
SurfaceFetchSettles(r) ==
  /\ vsPc = "fetching"
  /\ response' = r
  /\ \E data \in {LoadedData(r)} :
     \E cs \in {createSurface(data, renderGrid)} :
     \E a \in {IF cs.throws THEN [time |-> time, rotation |-> rotation, positions |-> <<>>]
                ELSE animate(time, rotation, cs.baseHeights, cs.positions, renderGrid)} :
         /\ surfaceData' = data
         /\ baseHeights' = cs.baseHeights
         /\ indices' = cs.indices
         /\ surface' = cs.surface
         /\ IF cs.throws
            THEN /\ vsPc' = "rejected"
                 /\ unhandled' = unhandled \cup {"VolatilitySurface.init"}
                 /\ positions' = cs.positions
                 /\ console' = console
                      \cup (IF data.truthy THEN {"Loaded health surface data"}
                            ELSE {"Could not load surface data, using synthetic fallback"})
                 /\ UNCHANGED <<frameVars, resizeListener>>
            ELSE /\ vsPc' = "running"
                 /\ resizeListener' = TRUE
                 /\ time' = a.time
                 /\ rotation' = a.rotation
                 /\ positions' = a.positions
                 /\ pendingFrames' = RequestFrame(pendingFrames)
                 /\ console' = console
                      \cup (IF data.truthy THEN {"Loaded health surface data"}
                            ELSE {"Could not load surface data, using synthetic fallback"})
                      \cup {"Three.js volatility surface initialized"}
                 /\ UNCHANGED <<unhandled, frames>>
  /\ UNCHANGED <<pollVars, handlers, smoothScroll, resizeTimer, innerWidth, hidden,
                 chartVars, renderGrid, antialias, rendererWidth, disposed, interpVars, debounceVars,
                 cardVars>>

\* A frame callback runs animate (line 315).
AnimationFrame ==
  /\ pendingFrames > 0
  /\ frames < MaxFrames
  /\ \E a \in {animate(time, rotation, baseHeights, positions, renderGrid)} :
         /\ time' = a.time
         /\ rotation' = a.rotation
         /\ positions' = a.positions
  /\ pendingFrames' = RequestFrame(pendingFrames - 1)
  /\ frames' = frames + 1
  /\ UNCHANGED <<pollVars, pageVars, chartVars, vsPc, response, renderGrid, antialias,
                 rendererWidth, surfaceData, baseHeights, indices, surface,
                 resizeListener, disposed, interpVars, debounceVars,
                 cardVars>>

\* dispose(), lines 359-367: releases the geometry, the material and the
\* renderer, and touches no field.
Dispose ==
  /\ vsPc # "absent"
  /\ disposed' = TRUE
  /\ UNCHANGED <<pollVars, pageVars, chartVars, vsPc, response, renderGrid, antialias,
                 rendererWidth, meshVars, frameVars, resizeListener, interpVars, debounceVars,
                 cardVars>>

\* The visibilitychange listener, lines 149-157: it only logs.
VisibilityChange ==
  /\ hidden' = ~hidden
  /\ console' = console \cup {IF hidden' THEN "Tab hidden, pausing animations"
                                         ELSE "Tab visible, resuming animations"}
  /\ UNCHANGED <<pollVars, unhandled, handlers, smoothScroll, resizeTimer, innerWidth,
                 chartVars, surfaceVars, interpVars, debounceVars,
                 cardVars>>

\* A resize event: the surface's listener (lines 352-356), once added,
\* resizes camera and renderer; the page's listener (lines 139-144)
\* restarts its 250 ms debounce timer.
WindowResize(w) ==
  /\ innerWidth' = w
  /\ rendererWidth' = IF resizeListener THEN w ELSE rendererWidth
  /\ resizeTimer' = TRUE
  /\ UNCHANGED <<pollVars, console, unhandled, handlers, smoothScroll, hidden, chartVars,
                 vsPc, response, renderGrid, antialias, meshVars, frameVars,
                 resizeListener, disposed, interpVars, debounceVars,
                 cardVars>>

\* The debounce timer fires: setupProjectInteractions runs again (line 143).
ResizeSettles ==
  /\ resizeTimer
  /\ Len(handlers) < MaxSetups
  /\ resizeTimer' = FALSE
  /\ console' = console \cup {"Window resized, updating layout..."}
  /\ handlers' = Append(handlers, Listener("resize"))
  /\ UNCHANGED <<pollVars, unhandled, smoothScroll, innerWidth, hidden, chartVars,
                 surfaceVars, interpVars, debounceVars,
                 cardVars>>

\* The fetch of a chart's JSON settles.
KalmanFetchSettles(o) ==
  /\ kalmanViz.pc = "fetching"
  /\ kalmanViz' = ChartSettled(kalmanViz, o)
  /\ console' = console \cup (IF kalmanViz'.fetch = "failed"
                              THEN {"Error loading data from data/kalman-data.json"}
                              ELSE {})
  /\ unhandled' = unhandled \cup (IF RenderThrows(kalmanViz') THEN {"KalmanViz.init"} ELSE {})
  /\ UNCHANGED <<pollVars, handlers, smoothScroll, resizeTimer, innerWidth, hidden,
                 markovViz, surfaceVars, interpVars, debounceVars,
                 cardVars>>
MarkovFetchSettles(o) ==
  /\ markovViz.pc = "fetching"
  /\ markovViz' = ChartSettled(markovViz, o)
  /\ console' = console \cup (IF markovViz'.fetch = "failed"
                              THEN {"Error loading data from data/markov-data.json"}
                              ELSE {})
  /\ unhandled' = unhandled \cup (IF RenderThrows(markovViz') THEN {"MarkovViz.init"} ELSE {})
  /\ UNCHANGED <<pollVars, handlers, smoothScroll, resizeTimer, innerWidth, hidden,
                 kalmanViz, surfaceVars, interpVars, debounceVars,
                 cardVars>>

\* interpolateSigma is not being sampled.
InterpIdle ==
  /\ iu = Whole(0) /\ iv = Whole(0)
  /\ igrid = DataGrid22
  /\ ires = [throws |-> FALSE, val |-> Undefined]

\* The card as the page's style sheet leaves it: its viz container hidden,
\* no pointer event yet.
NoEvent == [kind |-> "none", before |-> FALSE]
CardIdle == vizVisible = FALSE /\ showTimers = {} /\ lastEvent = NoEvent

\* No debounced function is being followed.
DebounceIdle ==
  /\ wait = 1 /\ now = 0 /\ nextId = 1 /\ timeout = 0
  /\ timers = {} /\ calls = <<>> /\ invocations = <<>>

\* The page before DOMContentLoaded: the scripts of the page have run or
\* failed, the libraries may still be loading.
PageInit ==
  /\ THREE \in BOOLEAN /\ d3 \in BOOLEAN
  /\ classes \in SUBSET ClassScripts
  /\ phase = "loading"
  /\ pollPending = FALSE /\ pollAttempts = 0 /\ initRuns = 0
  /\ console = {} /\ unhandled = {}
  /\ handlers = <<>> /\ smoothScroll = FALSE /\ resizeTimer = FALSE
  /\ innerWidth \in Widths /\ hidden = FALSE
  /\ kalmanViz = AbsentChart /\ markovViz = AbsentChart
  /\ vsPc = "absent" /\ response = NoResponse
  /\ renderGrid = NoGrid /\ antialias = FALSE /\ rendererWidth = 0
  /\ surfaceData = NullData /\ baseHeights = NullArr
  /\ positions = <<>> /\ indices = <<>> /\ surface = FALSE
  /\ time = Whole(0) /\ rotation = <<Whole(0), Whole(0)>>
  /\ pendingFrames = 0 /\ frames = 0
  /\ resizeListener = FALSE /\ disposed = FALSE

Init == PageInit /\ InterpIdle /\ DebounceIdle /\ CardIdle

\* The page left alone, for the specifications that sample one function.
PageIdle ==
  /\ PageInit
  /\ ~THREE /\ ~d3 /\ classes = {} /\ innerWidth = 768

\* The page right after the initialization body has run at
\* DOMContentLoaded with both libraries and both class scripts loaded:
\* the three fetches are in flight.
Initialized ==
  /\ THREE = TRUE /\ d3 = TRUE
  /\ classes = ClassScripts
  /\ phase = "ready"
  /\ pollPending = FALSE /\ pollAttempts = 0 /\ initRuns = 1
  /\ innerWidth \in Widths /\ hidden = FALSE
  /\ console = {"Initializing Quant Portfolio...", "Portfolio initialization complete",
                "D3.js visualizations initialized"}
  /\ unhandled = {}
  /\ handlers = <<Listener("init")>> /\ smoothScroll = TRUE /\ resizeTimer = FALSE
  /\ kalmanViz = ConstructedChart /\ markovViz = ConstructedChart
  /\ vsPc = "fetching" /\ response = NoResponse
  /\ renderGrid \in RenderGridsFor(isMobile)
  /\ antialias = ~isMobile /\ rendererWidth = innerWidth
  /\ surfaceData = NullData /\ baseHeights = NullArr
  /\ positions = <<>> /\ indices = <<>> /\ surface = FALSE
  /\ time = Whole(0) /\ rotation = <<Whole(0), Whole(0)>>
  /\ pendingFrames = 0 /\ frames = 0
  /\ resizeListener = FALSE /\ disposed = FALSE

\* The bootstrap of the page: the libraries load, initializeWhenReady polls
\* and runs the body, and the three fetches settle.
Next ==
  \/ DOMContentLoaded
  \/ PollTimer
  \/ LoadTHREE
  \/ LoadD3
  \/ \E r \in SurfaceResponses : SurfaceFetchSettles(r)
  \/ \E o \in ChartOutcomes : KalmanFetchSettles(o)
  \/ \E o \in ChartOutcomes : MarkovFetchSettles(o)

Spec == Init /\ [][Next]_vars

\* A pending timer fires: the poll of line 31 is not starved.
FairSpec == Spec /\ WF_vars(PollTimer)

\* The life of the surface from the moment init awaits its fetch: the
\* fetch settles, frames run, the window is resized, the tab is hidden and
\* shown, dispose is called.
SurfaceNext ==
  \/ \E r \in SurfaceResponses : SurfaceFetchSettles(r)
  \/ AnimationFrame
  \/ Dispose
  \/ VisibilityChange
  \/ \E w \in Widths : WindowResize(w)

SurfaceInit == Initialized /\ InterpIdle /\ DebounceIdle /\ CardIdle

SurfaceSpec == SurfaceInit /\ [][SurfaceNext]_vars

\* The life of the two charts from the moment their fetches are in flight,
\* with the page's resize and visibility events.
ChartNext ==
  \/ \E o \in ChartOutcomes : KalmanFetchSettles(o)
  \/ \E o \in ChartOutcomes : MarkovFetchSettles(o)
  \/ \E w \in Widths : WindowResize(w)
  \/ ResizeSettles
  \/ VisibilityChange

ChartInit == Initialized /\ InterpIdle /\ DebounceIdle /\ CardIdle

ChartSpec == ChartInit /\ [][ChartNext]_vars

\* ------------------------------------------------- sampled inputs (SpecInterp)
\* Sigma values of the sampled data grids.
CellValues == {Rat(-1, 2), Whole(3)}
Samples == {Rat(k, UDen) : k \in (-Over * UDen) .. ((1 + Over) * UDen)}
Grids ==
  UNION {[1 .. r -> [1 .. c -> CellValues]] : r \in 2 .. MaxRows, c \in 2 .. MaxCols}

NoResult == [throws |-> FALSE, val |-> Undefined]

InterpInit ==
  /\ PageIdle /\ DebounceIdle /\ CardIdle
  /\ iu \in Samples
  /\ iv \in Samples
  /\ igrid \in Grids
  /\ ires = NoResult

\* The call interpolateSigma(u, v, grid, grid.length, grid[0].length).
Interpolate ==
  /\ ires = NoResult
  /\ ires' = interpolateSigma(iu, iv, igrid, Len(igrid), Len(igrid[1]))
  /\ UNCHANGED <<iu, iv, igrid, pollVars, pageVars, chartVars, surfaceVars,
                 debounceVars, cardVars>>

SpecInterp == InterpInit /\ [][Interpolate]_vars

\* --------------------------------------------------------------- debounce
\* debounce(func, wait), lines 14-24, followed on a clock of whole ticks.
\* The host runs a timer's callback at the tick it is due, before any event
\* of that tick and before the clock moves on.
DebounceArgs == {"a", "b"}

\* clearTimeout(id): the timer of that id, if it is pending, is cancelled.
ClearTimeout(pending, id) == {t \in pending : t.id # id}

\* executedFunction with its clearTimeout left out.
CancelPreviousForgotten(pending, id) == pending

\* clearTimeout(timeout) in executedFunction, line 21.
CancelPrevious(pending, id) == ClearTimeout(pending, id)

TimerDue == \E t \in timers : t.due <= now

\* executedFunction(...args), lines 16-22.
DebouncedCall(a) ==
  /\ ~TimerDue
  /\ Len(calls) < MaxCalls
  /\ calls' = Append(calls, [time |-> now, args |-> a])
  /\ timers' = CancelPrevious(timers, timeout)
                 \cup {[id |-> nextId, due |-> now + wait, args |-> a]}
  /\ timeout' = nextId
  /\ nextId' = nextId + 1
  /\ UNCHANGED <<wait, now, invocations, interpVars, pollVars, pageVars, chartVars,
                 surfaceVars, cardVars>>

\* later(), lines 17-20, run by the timer that is due.
TimerFires ==
  \E t \in timers :
    /\ t.due <= now
    /\ timers' = ClearTimeout(timers \ {t}, timeout)
    /\ invocations' = Append(invocations, [time |-> now, args |-> t.args])
    /\ UNCHANGED <<wait, now, nextId, timeout, calls, interpVars, pollVars, pageVars,
                   chartVars, surfaceVars, cardVars>>

\* A tick of the clock.
Tick ==
  /\ ~TimerDue
  /\ now < MaxTime
  /\ now' = now + 1
  /\ UNCHANGED <<wait, nextId, timeout, timers, calls, invocations, interpVars,
                 pollVars, pageVars, chartVars, surfaceVars, cardVars>>

DebounceInit ==
  /\ PageIdle /\ InterpIdle /\ CardIdle
  /\ wait \in 1 .. MaxWait
  /\ now = 0 /\ nextId = 1 /\ timeout = 0
  /\ timers = {} /\ calls = <<>> /\ invocations = <<>>

DebounceNext ==
  \/ \E a \in DebounceArgs : DebouncedCall(a)
  \/ TimerFires
  \/ Tick

DebounceSpec == DebounceInit /\ [][DebounceNext]_vars

\* ------------------------------------------------------ a card's hover
\* The desktop branch of setupProjectInteractions, lines 92-109, for the
\* listeners one call installs on a card: the mouseenter listener is
\* debounce(..., 50) (lines 95, 103), its callback sets isHovering and
\* starts the 100 ms show timer (lines 96-102).  Times are in ms.
HoverDebounce == 50
ShowDelay == 100

CardTimerDue == TimerDue \/ \E due \in showTimers : due <= now

\* A mouseenter event: executedFunction of the debounced listener.
MouseEnter ==
  /\ ~CardTimerDue
  /\ Len(handlers) = 1 /\ handlers[1].kind = "hover"
  /\ Len(calls) < MaxCalls
  /\ calls' = Append(calls, [time |-> now, args |-> "mouseenter"])
  /\ timers' = CancelPrevious(timers, timeout)
                 \cup {[id |-> nextId, due |-> now + wait, args |-> "mouseenter"]}
  /\ timeout' = nextId
  /\ nextId' = nextId + 1
  /\ lastEvent' = [kind |-> "enter", before |-> vizVisible]
  /\ UNCHANGED <<wait, now, invocations, vizVisible, showTimers, interpVars, pollVars,
                 pageVars, chartVars, surfaceVars>>

\* A mouseleave event, lines 105-109.
MouseLeave ==
  /\ ~CardTimerDue
  /\ Len(handlers) = 1 /\ handlers[1].kind = "hover"
  /\ handlers' = [handlers EXCEPT ![1].flag = FALSE]
  /\ vizVisible' = FALSE
  /\ lastEvent' = [kind |-> "leave", before |-> vizVisible]
  /\ UNCHANGED <<console, unhandled, smoothScroll, resizeTimer, innerWidth, hidden,
                 showTimers, interpVars, pollVars, chartVars, surfaceVars, debounceVars>>

\* The debounce timer fires: later() runs the callback of lines 96-102.
HoverDebounceFires ==
  \E t \in timers :
    /\ t.due <= now
    /\ timers' = ClearTimeout(timers \ {t}, timeout)
    /\ invocations' = Append(invocations, [time |-> now, args |-> t.args])
    /\ handlers' = [handlers EXCEPT ![1].flag = TRUE]
    /\ showTimers' = showTimers \cup {now + ShowDelay}
    /\ UNCHANGED <<wait, now, nextId, timeout, calls, console, unhandled, smoothScroll,
                   resizeTimer, innerWidth, hidden, vizVisible, lastEvent, interpVars,
                   pollVars, chartVars, surfaceVars>>

\* A show timer fires, lines 98-101.
ShowTimerFires ==
  \E due \in showTimers :
    /\ due <= now
    /\ showTimers' = showTimers \ {due}
    /\ vizVisible' = IF handlers[1].flag THEN TRUE ELSE vizVisible
    /\ UNCHANGED <<lastEvent, interpVars, pollVars, pageVars, chartVars, surfaceVars,
                   debounceVars>>

\* The clock advances when no timer is due.
HoverTick ==
  /\ ~CardTimerDue
  /\ now < MaxHoverTime
  /\ now' = now + TickMs
  /\ UNCHANGED <<wait, nextId, timeout, timers, calls, invocations, interpVars,
                 pollVars, pageVars, chartVars, surfaceVars, cardVars>>

\* The page initialized on a viewport wider than 768px.
HoverInit ==
  /\ Initialized /\ innerWidth > 768
  /\ InterpIdle /\ CardIdle
  /\ wait = HoverDebounce
  /\ now = 0 /\ nextId = 1 /\ timeout = 0
  /\ timers = {} /\ calls = <<>> /\ invocations = <<>>

HoverNext ==
  \/ MouseEnter
  \/ MouseLeave
  \/ HoverDebounceFires
  \/ ShowTimerFires
  \/ HoverTick

HoverSpec == HoverInit /\ [][HoverNext]_vars

\* -------------------------------------------------------- a card's taps
\* The click listeners installed on the card, in the order they were added.
TapListeners == {n \in DOMAIN handlers : handlers[n].kind = "tap"}
LastOf(S) == CHOOSE n \in S : \A m \in S : m <= n

\* A click on the card outside any link, lines 114-131: every click
\* listener on the card runs, in the order of registration; each flips its
\* own isVisible and sets the container's style from it.
Tap ==
  /\ handlers' = [n \in DOMAIN handlers |->
                    IF handlers[n].kind = "tap"
                    THEN [handlers[n] EXCEPT !.flag = ~handlers[n].flag]
                    ELSE handlers[n]]
  /\ vizVisible' = IF TapListeners = {} THEN vizVisible
                   ELSE handlers'[LastOf(TapListeners)].flag
  /\ lastEvent' = [kind |-> "tap", before |-> vizVisible]
  /\ UNCHANGED <<console, unhandled, smoothScroll, resizeTimer, innerWidth, hidden,
                 showTimers, interpVars, pollVars, chartVars, surfaceVars, debounceVars>>

\* A click on a link of the card: every listener returns at line 117.
LinkTap ==
  /\ lastEvent' = [kind |-> "linkTap", before |-> vizVisible]
  /\ UNCHANGED <<vizVisible, showTimers, interpVars, pollVars, pageVars, chartVars,
                 surfaceVars, debounceVars>>

\* The page initialized on a viewport of at most 768px.
TapInit ==
  /\ Initialized /\ innerWidth <= 768
  /\ InterpIdle /\ DebounceIdle /\ CardIdle

TapNext ==
  \/ Tap
  \/ LinkTap
  \/ \E w \in Widths : WindowResize(w)
  \/ ResizeSettles

TapSpec == TapInit /\ [][TapNext]_vars

\* ------------------------------------------------- claims C1, C2, C3, C10
Vertices == (renderGrid.x + 1) * (renderGrid.y + 1)
Cells == renderGrid.x * renderGrid.y

\* C1 as stated: createSurface emits (gx+1)*(gy+1) vertices, as many
\* baseHeights, and 2*gx*gy entries in the wireframe index list.
C1_TwoEntriesPerCell ==
  surface =>
    /\ Len(positions) = 3 * Vertices
    /\ Len(baseHeights.arr) = Vertices
    /\ Len(indices) = 2 * Cells

\* C1 amended: createSurface emits (gx+1)*(gy+1) vertices of three
\* components, as many baseHeights, and 4*gx*gy entries in the wireframe
\* index list: 2*gx*gy segments of two entries each.
C1_MeshSize ==
  surface =>
    /\ Len(positions) = 3 * Vertices
    /\ Len(baseHeights.arr) = Vertices
    /\ Len(indices) = 4 * Cells

\* A surface built from a dataset on a render grid that is not square.
C1_Witness ==
  /\ surface
  /\ surfaceData.truthy /\ surfaceData.hasGrid
  /\ renderGrid.x # renderGrid.y
  /\ Len(indices) = 4 * Cells

\* The fetch failed, or it returned no data: a falsy document, or one with
\* no grid or an empty one.
FetchFailed == response.kind \in {"networkError", "badJSON"}
NoData ==
  /\ response.kind = "doc"
  /\ ~response.doc.truthy \/ ~response.doc.hasGrid \/ response.doc.grid = <<>>
\* The heights createSurface computes from no dataset, and from the grid of
\* the fetched document.
SyntheticHeights == createSurface(NullData, renderGrid).baseHeights
InterpolatedHeights ==
  createSurface(Doc(TRUE, TRUE, TRUE, TRUE, response.doc.grid), renderGrid).baseHeights

\* C2: once the fetch has settled, the synthetic formula supplied the
\* heights if and only if the fetch failed or returned no data, the heights
\* are otherwise interpolated from the fetched grid, and in every case the
\* mesh is built and the animation loop is started.
C2_FallbackIffNoData ==
  (vsPc \in {"running", "rejected"}) =>
    /\ (baseHeights = SyntheticHeights) <=> (FetchFailed \/ NoData)
    /\ ~(FetchFailed \/ NoData) => baseHeights = InterpolatedHeights
    /\ surface
    /\ pendingFrames = 1

\* The component c (0: x, 1: height, 2: y) of vertex idx in a buffer.
Component(buffer, idx, c) == buffer[3 * idx + c + 1]
\* C3: baseHeights is written by createSurface only, before the first
\* frame, and no step modifies it afterwards; a step on a built surface
\* leaves the x and y components of every vertex alone, and the height
\* component is always the base height plus the wave of the latest frame.
C3_BaseHeightsReadOnly ==
  /\ [](baseHeights.null => frames = 0 /\ pendingFrames = 0)
  /\ [](vsPc = "running" =>
          \A idx \in 0 .. Vertices - 1 :
            /\ Component(positions, idx, 1).base = baseHeights.arr[idx + 1]
            /\ Component(positions, idx, 1).wave.on
            /\ Component(positions, idx, 1).wave.time = time)
  /\ [][~baseHeights.null =>
          /\ baseHeights' = baseHeights
          /\ Len(positions') = Len(positions)
          /\ \A idx \in 0 .. Vertices - 1 :
               /\ Component(positions', idx, 0) = Component(positions, idx, 0)
               /\ Component(positions', idx, 2) = Component(positions, idx, 2)]_vars

\* Frames have run on a built surface, and the window was resized.
C3_Witness ==
  /\ vsPc = "running"
  /\ frames = MaxFrames
  /\ resizeTimer
  /\ surfaceData.hasGrid

SurfaceRaised == "volatility-surface.js" \notin classes \/ vsPc = "rejected"
ChartsRaised ==
  \/ "project-visualizations.js" \notin classes
  \/ RenderThrows(kalmanViz) \/ RenderThrows(markovViz)

\* C6: each visualization's setup is guarded on its own: an exception
\* raised while setting one up, synchronously or asynchronously, is caught
\* and logged, and the other visualizations are set up all the same.
C6_SetupsGuarded ==
  initRuns = 1 =>
    /\ SurfaceRaised => "Error initializing Three.js surface" \in console
    /\ ChartsRaised => "Error initializing D3.js visualizations" \in console
    /\ unhandled = {}
    /\ "volatility-surface.js" \in classes => vsPc # "absent"
    /\ "project-visualizations.js" \in classes =>
         kalmanViz.pc # "absent" /\ markovViz.pc # "absent"

ChartLoadsSafely(chart, url) ==
  /\ chart.fetch = "failed" =>
       /\ ("Error loading data from " \o url) \in console
       /\ chart.renders = 0
       /\ chart.container = "initial"
  /\ chart.renders > 0 => chart.fetch = "ok" /\ chart.data \in {"malformed", "valid"}
  /\ chart.renders <= 1

\* C7: for each chart, a fetch that fails is logged, render is never called
\* and the container is left as it was; render runs only after the data
\* has been stored, and at most once per page load.
C7_RenderAfterData ==
  /\ ChartLoadsSafely(kalmanViz, "data/kalman-data.json")
  /\ ChartLoadsSafely(markovViz, "data/markov-data.json")

\* One chart's fetch failed, the other chart rendered, and a resize has run
\* setupProjectInteractions again.
C7_Witness ==
  /\ kalmanViz.fetch = "failed" /\ kalmanViz.pc = "done"
  /\ markovViz.renders = 1 /\ markovViz.container = "chart"
  /\ Len(handlers) > 1

\* Call k is the last of its burst: no call follows it within the wait.
LastOfBurst(k) == k = Len(calls) \/ calls[k + 1].time - calls[k].time >= wait
\* The wait after call k has elapsed and the timer due then has run.
Elapsed(k) ==
  \/ calls[k].time + wait < now
  \/ calls[k].time + wait = now /\ ~TimerDue

\* C8: debounce is last-writer-wins: for every burst of calls, each less
\* than wait after the one before, func is invoked exactly once, wait after
\* the last call of the burst and with that call's arguments, and it is
\* invoked at no other time.
C8_LastWriterWins ==
  /\ \A n \in DOMAIN invocations :
       \E k \in DOMAIN calls :
         /\ LastOfBurst(k) /\ Elapsed(k)
         /\ invocations[n] = [time |-> calls[k].time + wait, args |-> calls[k].args]
  /\ Len(invocations) = Cardinality({k \in DOMAIN calls : LastOfBurst(k) /\ Elapsed(k)})

\* A burst of two calls a tick apart with different arguments has been
\* answered by the invocation for its second call.
C8_Witness ==
  \E k \in 2 .. Len(calls) :
    /\ calls[k].time - calls[k - 1].time \in 1 .. wait - 1
    /\ calls[k].args # calls[k - 1].args
    /\ LastOfBurst(k) /\ Elapsed(k)
    /\ \E n \in DOMAIN invocations :
         invocations[n] = [time |-> calls[k].time + wait, args |-> calls[k].args]

\* Something initializeWhenReady constructs or wires exists.
InitWired == \E n \in DOMAIN handlers : handlers[n].by = "init"
Constructed ==
  vsPc # "absent" \/ kalmanViz.pc # "absent" \/ markovViz.pc # "absent"

\* C9: initializeWhenReady constructs and wires nothing while THREE or d3
\* is undefined and keeps a poll pending for as long as one is (however
\* many polls that takes from a DOMContentLoaded that comes first); the
\* body runs at most once, and it does run once both are defined.
C9_WaitsForLibraries ==
  /\ [](/\ initRuns <= 1
        /\ (initRuns > 0 \/ Constructed \/ InitWired \/ smoothScroll) => (THREE /\ d3)
        /\ (phase = "ready" /\ ~(THREE /\ d3)) => (pollPending /\ initRuns = 0))
  /\ ((phase = "ready" /\ THREE /\ d3) ~> (initRuns = 1))

\* The body has run after as many polls as the model follows.
C9_Witness ==
  /\ initRuns = 1
  /\ pollAttempts = MaxPolls
  /\ Constructed /\ InitWired

\* ---------------------------------------------------------- claim C11
\* The segments of the wireframe: the index list read two entries at a time.
Segments == {<<indices[2 * k - 1], indices[2 * k]>> : k \in 1 .. (Len(indices) \div 2)}
Linked(p, q) == <<p, q>> \in Segments \/ <<q, p>> \in Segments
VertexIndex(row, col) == row * (renderGrid.x + 1) + col
\* The segment joins a vertex of the render grid to its right or to its
\* down neighbour.
RightOrDown(seg) ==
  \E row \in 0 .. renderGrid.y, col \in 0 .. renderGrid.x :
    /\ seg[1] = VertexIndex(row, col)
    /\ \/ col < renderGrid.x /\ seg[2] = VertexIndex(row, col + 1)
       \/ row < renderGrid.y /\ seg[2] = VertexIndex(row + 1, col)

\* C11: the wireframe index list connects every vertex of the render grid
\* that has a right neighbour to it, every vertex that has a down neighbour
\* to it, and holds no other segment.
C11_RightAndDownNeighbours ==
  surface =>
    /\ \A row \in 0 .. renderGrid.y, col \in 0 .. renderGrid.x :
         /\ col < renderGrid.x =>
              Linked(VertexIndex(row, col), VertexIndex(row, col + 1))
         /\ row < renderGrid.y =>
              Linked(VertexIndex(row, col), VertexIndex(row + 1, col))
    /\ \A seg \in Segments : RightOrDown(seg)

\* ---------------------------------------------------------- claim C12
\* C12: on a desktop card, once no debounce timer and no show timer is
\* pending, the viz container is visible only if the most recent pointer
\* event was a mouseenter; a mouseleave that comes before the timers of a
\* mouseenter fire leaves the container hidden.
C12_VisibleOnlyWhileHovering ==
  (timers = {} /\ showTimers = {}) =>
    (vizVisible => lastEvent.kind = "enter")

\* ---------------------------------------------------------- claim C13
\* C13: on a card set up for taps, whatever taps and settled resizes came
\* before, a tap outside a link flips the viz container: its visibility
\* after the tap is the opposite of its visibility before the tap.
C13_TapFlips ==
  lastEvent.kind = "tap" => vizVisible # lastEvent.before

\* ---------------------------------------------------------- claim C14
\* C14: 768px is one mobile/desktop boundary for the whole page: at
\* initialization the surface takes the viewport for mobile (the sparser
\* render grid, antialiasing off) if and only if setupProjectInteractions
\* installs the tap handlers rather than the hover handlers, and grid
\* density and antialiasing agree with each other.
C14_OneBoundary ==
  (initRuns = 1 /\ vsPc # "absent") =>
    /\ (~renderGrid.dense /\ ~antialias) <=> (handlers[1].kind = "tap")
    /\ renderGrid.dense <=> antialias

\* ------------------------------------------------------------ claims C4, C5
InUnit(a) == JLe(Whole(0), a) /\ JLe(a, Whole(1))
Called == ires # NoResult

\* The four surrounding grid values the claim names, for the sampled inputs.
CornerX0 == Floor(JMul(iu, Whole(Len(igrid[1]) - 1)))
CornerY0 == Floor(JMul(iv, Whole(Len(igrid) - 1)))
CornerX1 == Min(CornerX0 + 1, Len(igrid[1]) - 1)
CornerY1 == Min(CornerY0 + 1, Len(igrid) - 1)
Corners ==
  {igrid[y + 1][x + 1] : y \in {CornerY0, CornerY1}, x \in {CornerX0, CornerX1}}
WithinCorners(r) ==
  /\ \E c \in Corners : JLe(c, r)
  /\ \E c \in Corners : JLe(r, c)

\* C4: for u, v in [0,1] and a grid of at least 2 x 2, interpolateSigma
\* returns a number between the least and the greatest of the four
\* surrounding grid values.
C4_Convexity ==
  (Called /\ InUnit(iu) /\ InUnit(iv)) =>
    /\ ~ires.throws
    /\ IsNum(ires.val)
    /\ WithinCorners(ires.val)

\* A call strictly inside a cell whose corners differ.
C4_Witness ==
  /\ Called /\ InUnit(iu) /\ InUnit(iv)
  /\ iu.d > 1 /\ iv.d > 1
  /\ Cardinality(Corners) = 2
  /\ ~ires.throws /\ WithinCorners(ires.val)

RowInRange == CornerY0 >= 0 /\ CornerY0 < Len(igrid)
ColInRange == CornerX0 >= 0 /\ CornerX0 < Len(igrid[1])

\* C5 as stated: for u or v outside [0,1], by any amount, interpolateSigma
\* raises no error and returns a number.
C5_NoBoundsFailure ==
  (Called /\ ~(InUnit(iu) /\ InUnit(iv))) => (~ires.throws /\ IsNum(ires.val))

\* C5 amended: the call raises a TypeError exactly when floor(v*(nRows-1))
\* is no row index; otherwise it returns NaN exactly when floor(u*(nCols-1))
\* is no column index, and else a number that lies between the clamped
\* cells it blends (past 1 the last row or column only, no extrapolation).
C5_BoundsPolicy ==
  Called =>
    /\ ires.throws <=> ~RowInRange
    /\ ~ires.throws => (IsNum(ires.val) <=> ColInRange)
    /\ (~ires.throws /\ ~ColInRange) => ires.val = NaN
    /\ (~ires.throws /\ ColInRange) => WithinCorners(ires.val)

\* u just past 1: x0 is the last column, x1 is clamped to it, and the call
\* returns a number.
C5_Witness ==
  /\ Called
  /\ ~JLe(iu, Whole(1)) /\ InUnit(iv)
  /\ ColInRange /\ ~ires.throws /\ IsNum(ires.val)

====
